---- MODULE Spec2Model ----
(***************************************************************************)
(* Model of the solid-geometry kernel:                                     *)
(*   - CGALUtils::applyOperator3D  (sequential fold: intersection,         *)
(*     difference, minkowski)            cgalutils-applyops.cc             *)
(*   - CGALUtils::applyUnion3D     (n-ary union over a priority queue)     *)
(*   - the primitive tessellators  (cube, sphere, cylinder, square,        *)
(*     circle)                           primitives.cc                     *)
(*                                                                         *)
(* An exact solid (CGAL_Nef_polyhedron) is a point set: a set of unit      *)
(* cells [i-1,i] of a row.  A geometry pointer is a record: isNull says    *)
(* whether the pointer is null, cells is the point set of the solid.       *)
(***************************************************************************)
EXTENDS Integers, Sequences, FiniteSets, Bags, TLC

\* ------------------------------------------------------------- bounds
\* cells a child of applyOperator3D may occupy: 1..FoldCells
FoldCells == 2
\* longest child list handed to applyOperator3D
MaxFoldChildren == 3
\* cells a child of applyUnion3D may occupy: 1..UnionCells
UnionCells == 3
\* most children handed to applyUnion3D
MaxUnionChildren == 3
\* largest finite dimension of a primitive
MaxDim == 2
\* largest $fn of a curved primitive
MaxFragments == 6
\* most points of a polyhedron or polygon
MaxPoints == 3
\* most faces of a polyhedron, most paths of a polygon
MaxFaces == 2
\* most index values of one face or path
MaxFaceLen == 4

VARIABLES
  \* ---- applyOperator3D
  children,    \* the Geometry::Geometries argument (second components)
  op,          \* the OpenSCADOperator argument
  failAt,      \* which algebra call throws (0: none): the environment
  idx,         \* position of the range-for over children
  acc,         \* the locals N, foundFirst, and what happened so far
  fpc,         \* "loop" | "done"
  result       \* the returned shared_ptr<Geometry>

foldVars == <<children, op, failAt, idx, acc, fpc, result>>

VARIABLES
  \* ---- applyUnion3D
  uch,         \* the children the first loop has walked over, as a bag
  uq,          \* the priority_queue q, as a bag of (solid, mark) items
  ticks,       \* calls of progress_tick()
  merges,      \* operator+ calls that returned
  operands,    \* every solid handed to operator+
  lastPop,     \* the two items the last merge step popped, in order
  uthrown,     \* a CGAL::Failure_exception was caught
  upc,         \* "push" | "merge" | "done"
  uresult      \* the returned shared_ptr<const Geometry>

unionVars == <<uch, uq, ticks, merges, operands, lastPop, uthrown, upc, uresult>>

VARIABLES
  \* ---- primitives
  node,        \* the primitive node: its kind and its numeric fields
  bld,         \* the PolySetBuilder of a sphere or cylinder under construction
  geom,        \* what createGeometry() returned
  ppc          \* "node" | "build" | "done"

primVars == <<node, bld, geom, ppc>>

vars == <<foldVars, unionVars, primVars>>

\* ------------------------------------------------- exact solid algebra
Null == [isNull |-> TRUE, cells |-> {}]

Solid(c) == [isNull |-> FALSE, cells |-> c]

\* CGAL_Nef_polyhedron::isEmpty
isEmpty(g) == g.cells = {}

\* maximal runs of adjacent cells: the connected boxes of the point set
Runs(c) == Cardinality({i \in c : (i - 1) \notin c})

\* p3->number_of_facets(): six facets per connected box
number_of_facets(g) == 6 * Runs(g.cells)

\* operator*= : point-set intersection
Intersect(a, b) == Solid(a.cells \cap b.cells)

\* operator-= : point-set difference
Subtract(a, b) == Solid(a.cells \ b.cells)

\* minkowski(): [i-1,i] + [j-1,j] = [i+j-2, i+j]
Minkowski(a, b) == Solid(UNION {{i + j - 1, i + j} : i \in a.cells, j \in b.cells})

\* operator+ : point-set union
Unite(a, b) == Solid(a.cells \cup b.cells)

\* ------------------------------------------------------ applyOperator3D
Operators == {"INTERSECTION", "DIFFERENCE", "MINKOWSKI"}

FoldGeoms == {Null} \cup {Solid(c) : c \in SUBSET (1 .. FoldCells)}

RECURSIVE SeqsUpTo(_, _)
SeqsUpTo(S, n) ==
  IF n = 0 THEN {<<>>}
  ELSE LET shorter == SeqsUpTo(S, n - 1)
       IN shorter \cup {Append(s, x) : s \in {t \in shorter : Len(t) = n - 1}, x \in S}

\* the locals at function entry: N = nullptr, foundFirst = false
FoldStart ==
  [N |-> Null, foundFirst |-> FALSE, calls |-> 0, reports |-> 0,
   thrown |-> FALSE, crashed |-> FALSE]

\* mutant of ChildMissing: the isEmpty() test is missing
ChildMissingNullOnly(chN) == chN.isNull

\* if (!chN || chN->isEmpty())
ChildMissing(chN) == chN.isNull \/ isEmpty(chN)

\* mutant of AccMissing: the !N test is missing, N->isEmpty() alone decides
AccMissingNoNullTest(s) == ~s.N.isNull /\ isEmpty(s.N)

\* if (!N || N->isEmpty()) continue;
AccMissing(s) == s.N.isNull \/ isEmpty(s.N)

\* mutant of SkipChild: the reset is applied whatever the operator
SkipChildResetsAlways(s, o) == [s EXCEPT !.N = Null]

\* the null/empty child branch: only INTERSECTION resets N
SkipChild(s, o) ==
  IF o = "INTERSECTION" THEN [s EXCEPT !.N = Null] ELSE s

\* switch (op): the mutating algebra call
ApplyOp(n, chN, o) ==
  CASE o = "INTERSECTION" -> Intersect(n, chN)
    [] o = "DIFFERENCE"   -> Subtract(n, chN)
    [] o = "MINKOWSKI"    -> Minkowski(n, chN)

\* the switch and the progress report; a throwing call leaves *N as it was
\* and leaves the loop; a call on a null N is a null dereference
Apply(s, chN, o, fail, hasNode) ==
  IF s.N.isNull THEN [s EXCEPT !.crashed = TRUE]
  ELSE IF s.calls + 1 = fail
    THEN [s EXCEPT !.calls = @ + 1, !.thrown = TRUE]
    ELSE [s EXCEPT !.N = ApplyOp(s.N, chN, o), !.calls = @ + 1,
                   !.reports = IF hasNode THEN @ + 1 ELSE @]

\* one iteration of the range-for body
FoldChild(s, chN, o, fail, hasNode) ==
  IF ~s.foundFirst
    THEN [s EXCEPT !.N = IF chN.isNull THEN Null ELSE chN, !.foundFirst = TRUE]
  ELSE IF ChildMissing(chN) THEN SkipChild(s, o)
  ELSE IF AccMissing(s) THEN s
  ELSE Apply(s, chN, o, fail, hasNode)

\* the value returned after the loop or the catch: shared_ptr<Geometry>(N)
FoldReturnValue(s) == s.N

\* the whole loop from position i, and the call as a function of its arguments
RECURSIVE RunFold(_, _, _, _, _)
RunFold(s, ch, i, o, fail) ==
  IF i > Len(ch) \/ s.thrown \/ s.crashed THEN s
  ELSE RunFold(FoldChild(s, ch[i], o, fail, FALSE), ch, i + 1, o, fail)

applyOperator3D(ch, o, fail) == FoldReturnValue(RunFold(FoldStart, ch, 1, o, fail))

FoldInit ==
  /\ children \in SeqsUpTo(FoldGeoms, MaxFoldChildren)
  /\ op \in Operators
  /\ failAt \in 0 .. MaxFoldChildren - 1
  /\ idx = 1
  /\ acc = FoldStart
  /\ fpc = "loop"
  /\ result = Null

FoldRunning == fpc = "loop" /\ idx <= Len(children) /\ ~acc.thrown /\ ~acc.crashed

FoldIterate(hasNode) ==
  /\ acc' = FoldChild(acc, children[idx], op, failAt, hasNode)
  /\ idx' = idx + 1
  /\ UNCHANGED <<children, op, failAt, fpc, result>>
  /\ UNCHANGED <<unionVars, primVars>>

FoldFirst ==
  /\ FoldRunning /\ ~acc.foundFirst
  /\ FoldIterate(FALSE)

FoldSkipChild ==
  /\ FoldRunning /\ acc.foundFirst /\ ChildMissing(children[idx])
  /\ FoldIterate(FALSE)

FoldSkipAcc ==
  /\ FoldRunning /\ acc.foundFirst /\ ~ChildMissing(children[idx]) /\ AccMissing(acc)
  /\ FoldIterate(FALSE)

FoldApply ==
  /\ FoldRunning /\ acc.foundFirst /\ ~ChildMissing(children[idx]) /\ ~AccMissing(acc)
  /\ acc.calls + 1 # failAt
  /\ \E hasNode \in BOOLEAN : FoldIterate(hasNode)

FoldThrow ==
  /\ FoldRunning /\ acc.foundFirst /\ ~ChildMissing(children[idx]) /\ ~AccMissing(acc)
  /\ acc.calls + 1 = failAt
  /\ FoldIterate(FALSE)

FoldReturn ==
  /\ fpc = "loop" /\ ~acc.crashed
  /\ idx > Len(children) \/ acc.thrown
  /\ result' = FoldReturnValue(acc)
  /\ fpc' = "done"
  /\ UNCHANGED <<children, op, failAt, idx, acc>>
  /\ UNCHANGED <<unionVars, primVars>>

FoldNext ==
  \/ FoldFirst
  \/ FoldSkipChild
  \/ FoldSkipAcc
  \/ FoldApply
  \/ FoldThrow
  \/ FoldReturn


\* --------------------------------------------------------- applyUnion3D
UnionGeoms == {Null} \cup {Solid(c) : c \in SUBSET (1 .. UnionCells)}

\* int node_mark = -1: the mark of a child without a node, and of a merged item
NoMark == -1

\* a child has no node, or a node whose progress_mark is 0
Marks == {NoMark, 0}

\* a child: it->second after getNefPolyhedronFromGeometry, and the
\* progress_mark of it->first (-1 when it->first is null)
UnionKids == [geom : UnionGeoms, mark : Marks]

\* mutant of QueueItemGreater: the comparison of the facet counts is reversed
QueueItemFewerFacets(lhs, rhs) ==
  LET l == number_of_facets(lhs.geom)
      r == number_of_facets(rhs.geom)
  IN (l < r) \/ (l = r /\ lhs.mark > rhs.mark)

\* mutant of QueueItemGreater: the comparison of the marks is reversed
QueueItemLowerMark(lhs, rhs) ==
  LET l == number_of_facets(lhs.geom)
      r == number_of_facets(rhs.geom)
  IN (l > r) \/ (l = r /\ lhs.mark < rhs.mark)

\* QueueItemGreater::operator()
QueueItemGreater(lhs, rhs) ==
  LET l == number_of_facets(lhs.geom)
      r == number_of_facets(rhs.geom)
  IN (l > r) \/ (l = r /\ lhs.mark > rhs.mark)

\* q.top(): an item the comparator puts before no other; which one among
\* items the comparator does not order is left to the heap's layout
IsTop(x, q) ==
  /\ BagIn(x, q)
  /\ \A y \in BagToSet(q) : ~QueueItemGreater(x, y)

\* q.pop() of item x
Pop(x, q) == q (-) SetToBag({x})

\* q.emplace(geom, mark)
Emplace(q, g, m) == q (+) SetToBag({[geom |-> g, mark |-> m]})

\* mutant of Queued: the isEmpty() test is missing
QueuedIfNotNull(kid) == ~kid.geom.isNull

\* if (curChild && !curChild->isEmpty())
Queued(kid) == ~kid.geom.isNull /\ ~isEmpty(kid.geom)

\* mutant of Merged: the second popped item is dropped
MergedDropsSecond(p1, p2) == p1.geom

\* the item the merge step puts back
Merged(p1, p2) == Unite(p1.geom, p2.geom)

\* new CGAL_Nef_polyhedron(q.top().first->p3)
UnionReturnValue(top) == Solid(top.geom.cells)

\* mutant of UnionCatchValue: what is left in the queue is returned
UnionCatchReturnsQueued(q) ==
  IF q = EmptyBag THEN Null ELSE (CHOOSE x \in BagToSet(q) : TRUE).geom

\* the catch block logs, and the function returns nullptr whatever q holds
UnionCatchValue(q) == Null

NoPop == <<>>

UnionInit ==
  /\ uch = EmptyBag
  /\ uq = EmptyBag
  /\ ticks = 0
  /\ merges = 0
  /\ operands = {}
  /\ lastPop = NoPop
  /\ uthrown = FALSE
  /\ upc = "push"
  /\ uresult = Null

\* one iteration of the first loop on a child that enters the queue
UnionPush ==
  /\ upc = "push" /\ BagCardinality(uch) < MaxUnionChildren
  /\ \E kid \in UnionKids :
       /\ Queued(kid)
       /\ uch' = uch (+) SetToBag({kid})
       /\ uq' = Emplace(uq, kid.geom, kid.mark)
  /\ UNCHANGED <<ticks, merges, operands, lastPop, uthrown, upc, uresult>>
  /\ UNCHANGED <<foldVars, primVars>>

\* one iteration of the first loop on a null or empty child
UnionSkip ==
  /\ upc = "push" /\ BagCardinality(uch) < MaxUnionChildren
  /\ \E kid \in UnionKids :
       /\ ~Queued(kid)
       /\ uch' = uch (+) SetToBag({kid})
  /\ UNCHANGED <<uq, ticks, merges, operands, lastPop, uthrown, upc, uresult>>
  /\ UNCHANGED <<foldVars, primVars>>

\* mutant of UnionTick: the while loop is entered without a progress_tick()
UnionTickMissing ==
  /\ upc = "push"
  /\ upc' = "merge"
  /\ UNCHANGED <<uch, uq, ticks, merges, operands, lastPop, uthrown, uresult>>
  /\ UNCHANGED <<foldVars, primVars>>

\* it == chend: the progress_tick() before the while loop
UnionTick ==
  /\ upc = "push"
  /\ ticks' = ticks + 1
  /\ upc' = "merge"
  /\ UNCHANGED <<uch, uq, merges, operands, lastPop, uthrown, uresult>>
  /\ UNCHANGED <<foldVars, primVars>>

\* one iteration of while (q.size() > 1)
UnionMerge ==
  /\ upc = "merge" /\ BagCardinality(uq) > 1
  /\ \E p1 \in BagToSet(uq) :
       /\ IsTop(p1, uq)
       /\ \E p2 \in BagToSet(Pop(p1, uq)) :
            /\ IsTop(p2, Pop(p1, uq))
            /\ uq' = Emplace(Pop(p2, Pop(p1, uq)), Merged(p1, p2), NoMark)
            /\ operands' = operands \cup {p1.geom, p2.geom}
            /\ lastPop' = <<p1, p2>>
  /\ merges' = merges + 1
  /\ ticks' = ticks + 1
  /\ UNCHANGED <<uch, uthrown, upc, uresult>>
  /\ UNCHANGED <<foldVars, primVars>>

\* operator+ throws: the catch logs and the function returns nullptr
UnionMergeThrow ==
  /\ upc = "merge" /\ BagCardinality(uq) > 1
  /\ \E p1 \in BagToSet(uq) :
       /\ IsTop(p1, uq)
       /\ \E p2 \in BagToSet(Pop(p1, uq)) :
            /\ IsTop(p2, Pop(p1, uq))
            /\ uq' = Pop(p2, Pop(p1, uq))
            /\ operands' = operands \cup {p1.geom, p2.geom}
            /\ lastPop' = <<p1, p2>>
  /\ uthrown' = TRUE
  /\ upc' = "done"
  /\ uresult' = UnionCatchValue(uq')
  /\ UNCHANGED <<uch, ticks, merges>>
  /\ UNCHANGED <<foldVars, primVars>>

\* if (q.size() == 1) return the top
UnionReturnOne ==
  /\ upc = "merge" /\ BagCardinality(uq) = 1
  /\ \E top \in BagToSet(uq) :
       /\ IsTop(top, uq)
       /\ uresult' = UnionReturnValue(top)
  /\ upc' = "done"
  /\ UNCHANGED <<uch, uq, ticks, merges, operands, lastPop, uthrown>>
  /\ UNCHANGED <<foldVars, primVars>>

\* else return nullptr
UnionReturnNull ==
  /\ upc = "merge" /\ BagCardinality(uq) = 0
  /\ uresult' = Null
  /\ upc' = "done"
  /\ UNCHANGED <<uch, uq, ticks, merges, operands, lastPop, uthrown>>
  /\ UNCHANGED <<foldVars, primVars>>

UnionNext ==
  \/ UnionPush
  \/ UnionSkip
  \/ UnionTick
  \/ UnionMerge
  \/ UnionMergeThrow
  \/ UnionReturnOne
  \/ UnionReturnNull

\* ----------------------------------------------------------- doubles
\* a double: finite (v, in whole units), an infinity or NaN
Fin(v) == [k |-> "fin", v |-> v]

PosInf == [k |-> "inf", v |-> 0]

NegInf == [k |-> "ninf", v |-> 0]

NaN == [k |-> "nan", v |-> 0]

\* std::isfinite
isfinite(d) == d.k = "fin"

\* d <= 0: false for NaN
LeqZero(d) == (d.k = "fin" /\ d.v <= 0) \/ d.k = "ninf"

\* d < 0: false for NaN
LtZero(d) == (d.k = "fin" /\ d.v < 0) \/ d.k = "ninf"

\* d > 0: false for NaN
GtZero(d) == (d.k = "fin" /\ d.v > 0) \/ d.k = "inf"

\* a == b: false when either is NaN
DEq(a, b) == a.k # "nan" /\ b.k # "nan" /\ a = b

Dims == {Fin(v) : v \in (-1) .. MaxDim} \cup {PosInf, NegInf, NaN}

\* ---------------------------------------------------- PolySetBuilder
\* vertices: the de-duplicated points; indices: the faces, 0-based
NewBuilder == [vertices |-> <<>>, indices |-> <<>>]

HasVertex(b, p) == \E i \in 1 .. Len(b.vertices) : b.vertices[i] = p

\* vertexIndex(p), its effect on the builder
WithVertex(b, p) ==
  IF HasVertex(b, p) THEN b ELSE [b EXCEPT !.vertices = Append(@, p)]

\* vertexIndex(p), the index it returns
vertexIndex(b, p) ==
  LET w == WithVertex(b, p)
  IN (CHOOSE i \in 1 .. Len(w.vertices) : w.vertices[i] = p) - 1

\* append_poly(const std::vector<int>&)
append_poly(b, inds) == [b EXCEPT !.indices = Append(@, inds)]

\* append_vertex(n): at the end of the face under construction
append_vertex(b, n) ==
  [b EXCEPT !.indices[Len(b.indices)] = Append(@, n)]

\* prepend_vertex(n): at the front of the face under construction
prepend_vertex(b, n) ==
  [b EXCEPT !.indices[Len(b.indices)] = <<n>> \o @]

\* for each point in order: vertexIndex, then append_vertex or prepend_vertex
RECURSIVE AddVertices(_, _, _, _)
AddVertices(b, pts, i, prepend) ==
  IF i > Len(pts) THEN b
  ELSE LET w == WithVertex(b, pts[i])
           n == vertexIndex(b, pts[i])
       IN AddVertices(IF prepend THEN prepend_vertex(w, n) ELSE append_vertex(w, n),
                      pts, i + 1, prepend)

\* append_poly(n) followed by n append_vertex(vertexIndex(p)) calls
AppendFace(b, pts) == AddVertices(append_poly(b, <<>>), pts, 1, FALSE)

\* append_poly(n) followed by n prepend_vertex(vertexIndex(p)) calls
PrependFace(b, pts) == AddVertices(append_poly(b, <<>>), pts, 1, TRUE)

\* ind1 = vertexIndex(p1); ind2 = ...; append_poly({ind1, ind2, ind3})
RECURSIVE WithVertices(_, _, _)
WithVertices(b, pts, i) ==
  IF i > Len(pts) THEN b ELSE WithVertices(WithVertex(b, pts[i]), pts, i + 1)

IndexedFace(b, pts) ==
  LET w == WithVertices(b, pts, 1)
  IN append_poly(w, [k \in 1 .. Len(pts) |-> vertexIndex(w, pts[k])])

\* a face to emit: its points in the order vertexIndex is called on them, and
\* how its indices reach the builder: "list" (append_poly of an index list),
\* "append" or "prepend" (append_poly(n), then one call per vertex)
Face(pts, how) == [pts |-> pts, how |-> how]

AddFace(b, f) ==
  CASE f.how = "list"    -> IndexedFace(b, f.pts)
    [] f.how = "append"  -> AppendFace(b, f.pts)
    [] f.how = "prepend" -> PrependFace(b, f.pts)

\* builder.result()
BuilderResult(b) ==
  [type |-> "PolySet", vertices |-> b.vertices, indices |-> b.indices]

\* new PolySet(3, true)
EmptyPolySet == [type |-> "PolySet", vertices |-> <<>>, indices |-> <<>>]

\* new Polygon2d()
EmptyPolygon2d == [type |-> "Polygon2d", outlines |-> <<>>, sanitized |-> FALSE]

\* Calc::get_fragments_from_r with $fn set: $fn, at least 3
get_fragments_from_r(fn) == IF fn >= 3 THEN fn ELSE 3

\* generate_circle: point i of a circle of radius r at height z; cos and sin
\* of distinct angles differ, and a zero radius collapses the circle to a point
CirclePoint(r, i, z) == IF r = 0 THEN <<0, 0, z>> ELSE <<r, i, z>>

\* ------------------------------------------------------------- cube
\* coordinates in half units, so that x / 2 is exact
CubeDegenerate(n) ==
  \/ LeqZero(n.x) \/ ~isfinite(n.x)
  \/ LeqZero(n.y) \/ ~isfinite(n.y)
  \/ LeqZero(n.z) \/ ~isfinite(n.z)

\* x1 (hi = FALSE) and x2 (hi = TRUE) of an extent d
CubeCoord(d, center, hi) ==
  IF center THEN (IF hi THEN d.v ELSE -d.v)
  ELSE (IF hi THEN 2 * d.v ELSE 0)

\* i & k, for k a power of two
BitSet(i, k) == (i \div k) % 2 = 1

\* Vector3d(i&1?x2:x1, i&2?y2:y1, i&4?z2:z1)
CubeCorner(n, i) ==
  <<CubeCoord(n.x, n.center, BitSet(i, 1)),
    CubeCoord(n.y, n.center, BitSet(i, 2)),
    CubeCoord(n.z, n.center, BitSet(i, 4))>>

\* mutant of CubeFaces: the left face is listed the other way round
CubeFacesLeftReversed ==
  <<<<4, 5, 7, 6>>, <<2, 3, 1, 0>>, <<0, 1, 5, 4>>,
    <<1, 3, 7, 5>>, <<3, 2, 6, 7>>, <<6, 4, 0, 2>>>>

\* the six append_poly calls: top, bottom, front, right, back, left
CubeFaces ==
  <<<<4, 5, 7, 6>>, <<2, 3, 1, 0>>, <<0, 1, 5, 4>>,
    <<1, 3, 7, 5>>, <<3, 2, 6, 7>>, <<2, 0, 4, 6>>>>

RECURSIVE CubeAppendFaces(_, _, _)
CubeAppendFaces(b, corner, f) ==
  IF f > Len(CubeFaces) THEN b
  ELSE CubeAppendFaces(
         append_poly(b, [k \in 1 .. 4 |-> corner[CubeFaces[f][k] + 1]]),
         corner, f + 1)

CubeGeometry(n) ==
  IF CubeDegenerate(n) THEN EmptyPolySet
  ELSE LET pts == [i \in 1 .. 8 |-> CubeCorner(n, i - 1)]
           b == WithVertices(NewBuilder, pts, 1)
           corner == [i \in 1 .. 8 |-> vertexIndex(b, pts[i])]
       IN BuilderResult(CubeAppendFaces(b, corner, 1))

\* ----------------------------------------------------------- sphere
SphereDegenerate(n) == LeqZero(n.r) \/ ~isfinite(n.r)

\* ring i of the sphere: r * sin(phi) is the same for ring i and ring
\* rings-1-i, r * cos(phi) differs from ring to ring
SpherePoint(rings, i, j) ==
  CirclePoint(1 + (IF i < rings - 1 - i THEN i ELSE rings - 1 - i), j, i)

\* the while loop over one pair of adjacent rings (r1 = ring i, r2 = ring i+1):
\* the triangles it emits, in order
RECURSIVE SphereBand(_, _, _, _, _)
SphereBand(rings, i, r1i, r2i, F) ==
  IF ~(r1i < F \/ r2i < F) THEN <<>>
  ELSE IF r1i < F /\ (r2i >= F \/ r1i < r2i)
    THEN \* sphere_next_r1
      <<Face(<<SpherePoint(rings, i + 1, r2i % F),
               SpherePoint(rings, i, (r1i + 1) % F),
               SpherePoint(rings, i, r1i)>>, "list")>>
        \o SphereBand(rings, i, r1i + 1, r2i, F)
    ELSE \* sphere_next_r2
      <<Face(<<SpherePoint(rings, i + 1, r2i),
               SpherePoint(rings, i + 1, (r2i + 1) % F),
               SpherePoint(rings, i, r1i % F)>>, "list")>>
        \o SphereBand(rings, i, r1i, r2i + 1, F)

\* for (int i = 0; i < rings - 1; ++i)
RECURSIVE SphereBands(_, _, _)
SphereBands(rings, i, F) ==
  IF i >= rings - 1 THEN <<>>
  ELSE SphereBand(rings, i, 0, 0, F) \o SphereBands(rings, i + 1, F)

\* int rings = (fragments + 1) / 2
SphereRings(F) == (F + 1) \div 2

\* mutant of SphereFaces: the bottom cap is appended like the top cap
SphereFacesBottomAppended(F) ==
  LET rings == SphereRings(F)
  IN <<Face([k \in 1 .. F |-> SpherePoint(rings, 0, k - 1)], "append")>>
       \o SphereBands(rings, 0, F)
       \o <<Face([k \in 1 .. F |-> SpherePoint(rings, rings - 1, k - 1)], "append")>>

\* top cap (appended), side bands, bottom cap (prepended)
SphereFaces(F) ==
  LET rings == SphereRings(F)
  IN <<Face([k \in 1 .. F |-> SpherePoint(rings, 0, k - 1)], "append")>>
       \o SphereBands(rings, 0, F)
       \o <<Face([k \in 1 .. F |-> SpherePoint(rings, rings - 1, k - 1)], "prepend")>>

\* --------------------------------------------------------- cylinder
\* mutant of CylinderDegenerate: the test of both radii being zero is missing
CylinderDegenerateNoBothZero(n) ==
  \/ LeqZero(n.h) \/ ~isfinite(n.h)
  \/ LtZero(n.r1) \/ ~isfinite(n.r1)
  \/ LtZero(n.r2) \/ ~isfinite(n.r2)

CylinderDegenerate(n) ==
  \/ LeqZero(n.h) \/ ~isfinite(n.h)
  \/ LtZero(n.r1) \/ ~isfinite(n.r1)
  \/ LtZero(n.r2) \/ ~isfinite(n.r2)
  \/ (LeqZero(n.r1) /\ LeqZero(n.r2))

\* z1 (hi = FALSE) and z2 (hi = TRUE), in half units
CylinderZ(n, hi) ==
  IF n.center THEN (IF hi THEN n.h.v ELSE -n.h.v)
  ELSE (IF hi THEN 2 * n.h.v ELSE 0)

\* circle1[i] at z1
Circle1(n, i) == CirclePoint(n.r1.v, i, CylinderZ(n, FALSE))

\* circle2[i] at z2
Circle2(n, i) == CirclePoint(n.r2.v, i, CylinderZ(n, TRUE))

\* the r1 == r2 side quad: k = 0..3 prepended, circle1[k&2 ? j : i] at
\* ((k+1)&2 ? z2 : z1)
CylinderQuad(n, i, j) ==
  [k \in 1 .. 4 |->
     CirclePoint(n.r1.v, IF BitSet(k - 1, 2) THEN j ELSE i,
                 CylinderZ(n, BitSet(k, 2)))]

\* mutant of CylinderSide: the quad of the r1 == r2 case is appended, not
\* prepended
CylinderSideQuadAppended(n, i, F) ==
  LET j == (i + 1) % F
  IN IF DEq(n.r1, n.r2) THEN <<Face(CylinderQuad(n, i, j), "append")>>
     ELSE (IF GtZero(n.r1)
             THEN <<Face(<<Circle1(n, j), Circle2(n, i), Circle1(n, i)>>, "list")>>
             ELSE <<>>)
          \o
          (IF GtZero(n.r2)
             THEN <<Face(<<Circle1(n, j), Circle2(n, j), Circle2(n, i)>>, "list")>>
             ELSE <<>>)

\* the side faces of segment i; when r1 != r2, ind1 = circle1[j] at z1 is
\* the first vertex of either triangle
CylinderSide(n, i, F) ==
  LET j == (i + 1) % F
  IN IF DEq(n.r1, n.r2) THEN <<Face(CylinderQuad(n, i, j), "prepend")>>
     ELSE (IF GtZero(n.r1)
             THEN <<Face(<<Circle1(n, j), Circle2(n, i), Circle1(n, i)>>, "list")>>
             ELSE <<>>)
          \o
          (IF GtZero(n.r2)
             THEN <<Face(<<Circle1(n, j), Circle2(n, j), Circle2(n, i)>>, "list")>>
             ELSE <<>>)

\* for (int i = 0; i < fragments; ++i)
RECURSIVE CylinderSides(_, _, _)
CylinderSides(n, i, F) ==
  IF i >= F THEN <<>> ELSE CylinderSide(n, i, F) \o CylinderSides(n, i + 1, F)

\* mutant of CylinderCaps: both caps are emitted whatever the radii
CylinderCapsAlways(n, F) ==
  <<Face([k \in 1 .. F |-> Circle1(n, k - 1)], "prepend"),
    Face([k \in 1 .. F |-> Circle2(n, k - 1)], "append")>>

\* the two end caps: the bottom one prepended, the top one appended
CylinderCaps(n, F) ==
  (IF GtZero(n.r1)
     THEN <<Face([k \in 1 .. F |-> Circle1(n, k - 1)], "prepend")>>
     ELSE <<>>)
  \o
  (IF GtZero(n.r2)
     THEN <<Face([k \in 1 .. F |-> Circle2(n, k - 1)], "append")>>
     ELSE <<>>)

\* the side faces, then the caps
CylinderFaces(n) ==
  LET F == get_fragments_from_r(n.fn)
  IN CylinderSides(n, 0, F) \o CylinderCaps(n, F)

\* ----------------------------------------------------- square, circle
SquareDegenerate(n) ==
  \/ LeqZero(n.x) \/ ~isfinite(n.x)
  \/ LeqZero(n.y) \/ ~isfinite(n.y)

\* o.vertices = {v1, {v2[0], v1[1]}, v2, {v1[0], v2[1]}}, in half units
SquareGeometry(n) ==
  IF SquareDegenerate(n) THEN EmptyPolygon2d
  ELSE LET v1 == <<CubeCoord(n.x, n.center, FALSE), CubeCoord(n.y, n.center, FALSE)>>
           v2 == <<CubeCoord(n.x, n.center, TRUE), CubeCoord(n.y, n.center, TRUE)>>
       IN [type |-> "Polygon2d",
           outlines |-> <<<<v1, <<v2[1], v1[2]>>, v2, <<v1[1], v2[2]>>>>>>,
           sanitized |-> TRUE]

CircleDegenerate(n) == LeqZero(n.r) \/ ~isfinite(n.r)

CircleGeometry(n) ==
  IF CircleDegenerate(n) THEN EmptyPolygon2d
  ELSE LET F == get_fragments_from_r(n.fn)
       IN [type |-> "Polygon2d",
           outlines |-> <<[k \in 1 .. F |-> <<n.r.v, k - 1>>]>>,
           sanitized |-> TRUE]

\* ------------------------------------------------- primitive nodes
Fns == 1 .. MaxFragments

CubeNodes == [kind : {"cube"}, x : Dims, y : Dims, z : Dims, center : BOOLEAN]

SphereNodes == [kind : {"sphere"}, r : Dims, fn : Fns]

CylinderNodes ==
  [kind : {"cylinder"}, h : Dims, r1 : Dims, r2 : Dims, center : BOOLEAN, fn : Fns]

SquareNodes == [kind : {"square"}, x : Dims, y : Dims, center : BOOLEAN]

CircleNodes == [kind : {"circle"}, r : Dims, fn : Fns]

NoGeometry == [type |-> "none"]

PrimInit ==
  /\ node \in CubeNodes \cup SphereNodes \cup CylinderNodes \cup SquareNodes \cup CircleNodes
  /\ bld = NewBuilder
  /\ geom = NoGeometry
  /\ ppc = "node"

\* createGeometry() returns g
Created(g) ==
  /\ geom' = g
  /\ ppc' = "done"
  /\ UNCHANGED <<node, bld>>
  /\ UNCHANGED <<foldVars, unionVars>>

\* the next face of the list is added to the builder
Emitted(faces) ==
  /\ ppc \in {"node", "build"}
  /\ Len(bld.indices) < Len(faces)
  /\ bld' = AddFace(bld, faces[Len(bld.indices) + 1])
  /\ ppc' = "build"
  /\ UNCHANGED <<node, geom>>
  /\ UNCHANGED <<foldVars, unionVars>>

\* every face of the list is in the builder: return builder.result()
Finished(faces) ==
  /\ ppc = "build"
  /\ Len(bld.indices) = Len(faces)
  /\ Created(BuilderResult(bld))

CubeCreate == ppc = "node" /\ node.kind = "cube" /\ Created(CubeGeometry(node))

SphereEmpty ==
  /\ ppc = "node" /\ node.kind = "sphere" /\ SphereDegenerate(node)
  /\ Created(EmptyPolySet)

SphereFace ==
  /\ node.kind = "sphere" /\ ~SphereDegenerate(node)
  /\ Emitted(SphereFaces(get_fragments_from_r(node.fn)))

SphereResult ==
  /\ node.kind = "sphere"
  /\ Finished(SphereFaces(get_fragments_from_r(node.fn)))

CylinderEmpty ==
  /\ ppc = "node" /\ node.kind = "cylinder" /\ CylinderDegenerate(node)
  /\ Created(EmptyPolySet)

CylinderFace ==
  /\ node.kind = "cylinder" /\ ~CylinderDegenerate(node)
  /\ Emitted(CylinderFaces(node))

CylinderResult ==
  /\ node.kind = "cylinder"
  /\ Finished(CylinderFaces(node))

SquareCreate == ppc = "node" /\ node.kind = "square" /\ Created(SquareGeometry(node))

CircleCreate == ppc = "node" /\ node.kind = "circle" /\ Created(CircleGeometry(node))

PrimNext ==
  \/ CubeCreate
  \/ SphereEmpty
  \/ SphereFace
  \/ SphereResult
  \/ CylinderEmpty
  \/ CylinderFace
  \/ CylinderResult
  \/ SquareCreate
  \/ CircleCreate

\* ------------------------------------- polyhedron and polygon modules
\* a point index value of a face or path: a number, or a value of another type
IndexValues ==
  [t : {"number"}, v : (-1) .. MaxPoints] \cup {[t |-> "other", v |-> 0]}

\* (size_t)pointIndexValue.toDouble(): the conversion of a negative double to
\* an unsigned type is undefined, any value may come out; every value from
\* MaxPoints on stands for an index beyond the points
SizeT(v) == IF v >= 0 THEN {v} ELSE 0 .. MaxPoints

\* if (pointIndex < node->points.size())
InRange(pointIndex, n) == pointIndex < n

\* if (face.size() >= 3) node->faces.push_back(std::move(face));
WithFace(faces, face) == IF Len(face) >= 3 THEN Append(faces, face) ELSE faces

\* node->paths.push_back(std::move(path));
WithPath(paths, path) == Append(paths, path)

\* the arguments of the module: whether points is a vector, and what the
\* faces or paths argument is
ArgKinds == {"ok", "badpoints", "badlists", "nolists"}

\* the loop state of the module: position in the list of faces or paths, the
\* face or path under construction, whether a warning was logged for it
Parsing(args) ==
  [args |-> args, faceIndex |-> 0, open |-> FALSE, face |-> <<>>,
   pointIndexIndex |-> 0, warned |-> FALSE]

\* std::make_shared<PolyhedronNode>(inst), points filled in
PolyhedronNodes == [kind : {"polyhedron"}, npoints : 0 .. MaxPoints, faces : {<<>>}]

\* std::make_shared<PolygonNode>(inst), points filled in
PolygonNodes == [kind : {"polygon"}, npoints : 0 .. MaxPoints, paths : {<<>>}]

\* points that is not a vector leaves the node without points
PolyInit ==
  /\ node \in PolyhedronNodes \cup PolygonNodes
  /\ \E args \in ArgKinds :
       /\ args = "badpoints" => node.npoints = 0
       /\ node.kind = "polyhedron" => args # "nolists"
       /\ bld = Parsing(args)
  /\ geom = NoGeometry
  /\ ppc = "args"

InLoop == ppc = "args" /\ bld.args = "ok"

ParseFrame == UNCHANGED <<geom>> /\ UNCHANGED <<foldVars, unionVars>>

\* points or faces/paths is not of a usable type: LOG Error, return node
ModuleBadArgs ==
  /\ ppc = "args" /\ bld.args \in {"badpoints", "badlists"}
  /\ ppc' = "node"
  /\ UNCHANGED <<node, bld>>
  /\ ParseFrame

\* polygon without a paths argument: the loop is skipped
PolygonNoPaths ==
  /\ ppc = "args" /\ bld.args = "nolists" /\ node.kind = "polygon"
  /\ ppc' = "node"
  /\ UNCHANGED <<node, bld>>
  /\ ParseFrame

\* faceValue.type() != VECTOR: LOG Error, next face
ListNotVector ==
  /\ InLoop /\ ~bld.open /\ bld.faceIndex < MaxFaces
  /\ bld' = [bld EXCEPT !.faceIndex = @ + 1]
  /\ UNCHANGED <<node, ppc>>
  /\ ParseFrame

\* a face or path that is a vector: the inner loop starts on an empty list
ListOpen ==
  /\ InLoop /\ ~bld.open /\ bld.faceIndex < MaxFaces
  /\ bld' = [bld EXCEPT !.open = TRUE, !.face = <<>>,
                         !.pointIndexIndex = 0, !.warned = FALSE]
  /\ UNCHANGED <<node, ppc>>
  /\ ParseFrame

\* one iteration of the inner loop on a number that is a valid index
IndexPushed ==
  /\ InLoop /\ bld.open /\ bld.pointIndexIndex < MaxFaceLen
  /\ \E val \in IndexValues : \E pointIndex \in SizeT(val.v) :
       /\ val.t = "number" /\ InRange(pointIndex, node.npoints)
       /\ bld' = [bld EXCEPT !.face = Append(@, pointIndex),
                              !.pointIndexIndex = @ + 1]
  /\ UNCHANGED <<node, ppc>>
  /\ ParseFrame

\* one iteration of the inner loop on a number beyond the points: LOG Warning
IndexOutOfBounds ==
  /\ InLoop /\ bld.open /\ bld.pointIndexIndex < MaxFaceLen
  /\ \E val \in IndexValues : \E pointIndex \in SizeT(val.v) :
       /\ val.t = "number" /\ ~InRange(pointIndex, node.npoints)
       /\ bld' = [bld EXCEPT !.warned = TRUE, !.pointIndexIndex = @ + 1]
  /\ UNCHANGED <<node, ppc>>
  /\ ParseFrame

\* one iteration of the inner loop on a value that is not a number: LOG Error
IndexNotNumber ==
  /\ InLoop /\ bld.open /\ bld.pointIndexIndex < MaxFaceLen
  /\ \E val \in IndexValues : val.t # "number"
  /\ bld' = [bld EXCEPT !.pointIndexIndex = @ + 1]
  /\ UNCHANGED <<node, ppc>>
  /\ ParseFrame

\* the end of a face of a polyhedron; the locals of the inner loop are gone
PolyhedronFaceEnd ==
  /\ InLoop /\ bld.open /\ node.kind = "polyhedron"
  /\ node' = [node EXCEPT !.faces = WithFace(@, bld.face)]
  /\ bld' = [bld EXCEPT !.open = FALSE, !.faceIndex = @ + 1, !.face = <<>>,
                         !.pointIndexIndex = 0, !.warned = FALSE]
  /\ UNCHANGED <<ppc>>
  /\ ParseFrame

\* the end of a path of a polygon
PolygonPathEnd ==
  /\ InLoop /\ bld.open /\ node.kind = "polygon"
  /\ node' = [node EXCEPT !.paths = WithPath(@, bld.face)]
  /\ bld' = [bld EXCEPT !.open = FALSE, !.faceIndex = @ + 1, !.face = <<>>,
                         !.pointIndexIndex = 0, !.warned = FALSE]
  /\ UNCHANGED <<ppc>>
  /\ ParseFrame

\* the end of the list of faces or paths: return node
ModuleReturn ==
  /\ InLoop /\ ~bld.open
  /\ ppc' = "node"
  /\ UNCHANGED <<node, bld>>
  /\ ParseFrame

\* point i of the node, 0-based
NodePoint(i) == <<"point", i>>

\* std::reverse(poly.begin(), poly.end())
Reverse(poly) == [k \in 1 .. Len(poly) |-> poly[Len(poly) + 1 - k]]

\* PolyhedronNode::createGeometry
PolyhedronGeometry(n) ==
  [type |-> "PolySet",
   vertices |-> [i \in 1 .. n.npoints |-> NodePoint(i - 1)],
   indices |-> [f \in 1 .. Len(n.faces) |-> Reverse(n.faces[f])]]

\* PolygonNode::createGeometry
PolygonGeometry(n) ==
  [type |-> "Polygon2d",
   outlines |->
     IF n.paths = <<>> /\ n.npoints > 2
       THEN <<[i \in 1 .. n.npoints |-> NodePoint(i - 1)]>>
       ELSE [p \in 1 .. Len(n.paths) |->
               [k \in 1 .. Len(n.paths[p]) |-> NodePoint(n.paths[p][k])]],
   sanitized |-> FALSE]

PolyhedronCreate ==
  /\ ppc = "node" /\ node.kind = "polyhedron" /\ Created(PolyhedronGeometry(node))

PolygonCreate ==
  /\ ppc = "node" /\ node.kind = "polygon" /\ Created(PolygonGeometry(node))

PolyNext ==
  \/ ModuleBadArgs
  \/ PolygonNoPaths
  \/ ListNotVector
  \/ ListOpen
  \/ IndexPushed
  \/ IndexOutOfBounds
  \/ IndexNotNumber
  \/ PolyhedronFaceEnd
  \/ PolygonPathEnd
  \/ ModuleReturn
  \/ PolyhedronCreate
  \/ PolygonCreate

\* ------------------------------------------------- specifications
\* each entry point is checked on its own; the other two stay idle
FoldIdle ==
  /\ children = <<>> /\ op = "DIFFERENCE" /\ failAt = 0 /\ idx = 1
  /\ acc = FoldStart /\ fpc = "idle" /\ result = Null

UnionIdle ==
  /\ uch = EmptyBag /\ uq = EmptyBag /\ ticks = 0 /\ merges = 0
  /\ operands = {} /\ lastPop = NoPop /\ uthrown = FALSE
  /\ upc = "idle" /\ uresult = Null

PrimIdle ==
  /\ node = [kind |-> "none"] /\ bld = NewBuilder
  /\ geom = NoGeometry /\ ppc = "idle"

InitFold == FoldInit /\ UnionIdle /\ PrimIdle

SpecFold == InitFold /\ [][FoldNext]_vars

InitUnion == UnionInit /\ FoldIdle /\ PrimIdle

SpecUnion == InitUnion /\ [][UnionNext]_vars

InitPrim == PrimInit /\ FoldIdle /\ UnionIdle

SpecPrim == InitPrim /\ [][PrimNext]_vars

InitPoly == PolyInit /\ FoldIdle /\ UnionIdle

SpecPoly == InitPoly /\ [][PolyNext]_vars

\* =====================================================================
\* Properties of applyOperator3D, checked under SpecFold
\* =====================================================================

FoldDone == fpc = "done"

\* a child list without its k-th child
RemoveAt(ch, k) == SubSeq(ch, 1, k - 1) \o SubSeq(ch, k + 1, Len(ch))

\* C1: if the algebra call that folds a child into the accumulator throws,
\* applyOperator3D returns null, never the accumulator of the earlier children.
C1_ThrowReturnsNull == (FoldDone /\ acc.thrown) => result.isNull

\* C3: with INTERSECTION, a null or empty child anywhere after the first makes
\* the call return null, whatever the other children are.
C3_IntersectionShortCircuits ==
  (FoldDone /\ op = "INTERSECTION"
     /\ \E k \in 2 .. Len(children) : ChildMissing(children[k]))
  => result.isNull

\* the same statement for the calls in which no algebra call throws
C3_ShortCircuitsUnlessThrown ==
  (FoldDone /\ op = "INTERSECTION" /\ ~acc.thrown
     /\ \E k \in 2 .. Len(children) : ChildMissing(children[k]))
  => result.isNull

\* C4: for DIFFERENCE and MINKOWSKI a null or empty child after the first
\* leaves the accumulator exactly as it was and the loop goes on to the next
\* child ...
C4_SkipLeavesAccumulator ==
  (FoldRunning /\ acc.foundFirst /\ op # "INTERSECTION" /\ ChildMissing(children[idx]))
  => (acc' = acc /\ idx' = idx + 1 /\ fpc' = fpc)

\* ... so the result is that of the same list with that child removed
C4_SameAsRemoved ==
  FoldDone =>
    \A k \in 2 .. Len(children) :
      (op # "INTERSECTION" /\ ChildMissing(children[k]))
      => result = applyOperator3D(RemoveAt(children, k), op, failAt)

C4_SkipIsNoOp == [][C4_SkipLeavesAccumulator]_vars /\ []C4_SameAsRemoved

\* a difference [A, null or empty, B] that returned the non-empty A - B # A
C4_Witness ==
  /\ FoldDone /\ op = "DIFFERENCE" /\ Len(children) = 3
  /\ ChildMissing(children[2]) /\ ~ChildMissing(children[3])
  /\ ~acc.thrown /\ acc.calls = 1
  /\ ~isEmpty(result) /\ result # children[1]

\* C5: for DIFFERENCE and MINKOWSKI a null first child leaves the accumulator
\* null through every remaining child: no operator is applied, no null pointer
\* is dereferenced, every child is scanned and the result is null.
C5_NullAccumulatorStays ==
  (fpc \in {"loop", "done"} /\ op # "INTERSECTION" /\ idx > 1 /\ children[1].isNull)
  => /\ acc.N = Null
     /\ acc.calls = 0 /\ ~acc.thrown /\ ~acc.crashed
     /\ FoldDone => (result.isNull /\ idx = Len(children) + 1)

\* a minkowski [null, B, C] with B and C non-empty, scanned to the end
C5_Witness ==
  /\ FoldDone /\ op = "MINKOWSKI" /\ Len(children) = 3
  /\ children[1].isNull
  /\ ~ChildMissing(children[2]) /\ ~ChildMissing(children[3])
  /\ idx = 4 /\ result.isNull

\* an intersection that returned without an algebra call throwing
IntersectionDone == FoldDone /\ op = "INTERSECTION" /\ ~acc.thrown

\* some child after the first is null or empty
LaterChildMissing ==
  \E k \in 2 .. Len(children) : children[k].isNull \/ isEmpty(children[k])

\* the first child is null
FirstChildNull == Len(children) >= 1 /\ children[1].isNull

\* C17 as stated: absent exceptions, INTERSECTION returns null exactly when
\* the first child is null or some later child is null or empty.
C17_NullIffFirstNullOrLaterMissing ==
  IntersectionDone => (result.isNull <=> (FirstChildNull \/ LaterChildMissing))

\* C17 (amended): absent exceptions, INTERSECTION returns null exactly when
\* the child list is empty, the first child is null, or some later child is
\* null or empty; an empty non-null first child followed only by non-empty
\* children gives a non-null empty solid.
C17_NullIffNoFirstOrLaterMissing ==
  IntersectionDone =>
    /\ result.isNull <=> (children = <<>> \/ FirstChildNull \/ LaterChildMissing)
    /\ (children # <<>> /\ ~FirstChildNull /\ ~LaterChildMissing
          /\ isEmpty(children[1]))
       => (~result.isNull /\ isEmpty(result))

\* [empty, B, C] with B and C non-empty: a non-null, empty result
C17_Witness ==
  /\ IntersectionDone /\ Len(children) = 3
  /\ ~children[1].isNull /\ isEmpty(children[1])
  /\ ~LaterChildMissing
  /\ ~result.isNull /\ isEmpty(result)

\* =====================================================================
\* Properties of applyUnion3D, checked under SpecUnion
\* =====================================================================

UnionDone == upc = "done"

\* the children walked over, as a set
Kids == BagToSet(uch)

NonOverlapping ==
  /\ uch # EmptyBag
  /\ \A k \in Kids : Queued(k) /\ CopiesIn(k, uch) = 1
  /\ \A k1, k2 \in Kids : k1 # k2 => k1.geom.cells \cap k2.geom.cells = {}

\* the point set covered by the children
AllCells == UNION {k.geom.cells : k \in Kids}

\* the total volume of the children: one unit per cell
RECURSIVE SumVolume(_)
SumVolume(ks) ==
  IF ks = {} THEN 0
  ELSE LET k == CHOOSE x \in ks : TRUE
       IN Cardinality(k.geom.cells) * CopiesIn(k, uch) + SumVolume(ks \ {k})

\* C6: whatever the order in which non-null, non-empty, pairwise
\* non-overlapping children (with any marks) are handed over, a call the
\* algebra does not fail returns the union of all of them: the volume is the
\* sum of the volumes and the facet count is that of the united point set.
C6_UnionOrderIndependent ==
  (UnionDone /\ ~uthrown /\ NonOverlapping)
  => /\ uresult = Solid(AllCells)
     /\ Cardinality(uresult.cells) = SumVolume(Kids)
     /\ number_of_facets(uresult) = 6 * Runs(AllCells)

\* three non-overlapping children, not all of the same mark, united by two
\* merges
C6_Witness ==
  /\ UnionDone /\ ~uthrown /\ NonOverlapping
  /\ BagCardinality(uch) = 3 /\ merges = 2
  /\ \E k1, k2 \in Kids : k1.mark # k2.mark
  /\ Cardinality(uresult.cells) = 3

\* C7: applyUnion3D returns null when every child is null or empty (the empty
\* list included), and a null or empty child never enters the queue nor is
\* handed to the union operator.
C7_NullAndEmptyNeverQueued ==
  /\ \A x \in BagToSet(uq) : ~x.geom.isNull /\ ~isEmpty(x.geom)
  /\ \A g \in operands : ~g.isNull /\ ~isEmpty(g)
  /\ (UnionDone /\ \A k \in Kids : ChildMissing(k.geom)) => uresult = Null

\* three children, null ones and empty ones, and a null result
C7_Witness ==
  /\ UnionDone /\ BagCardinality(uch) = 3
  /\ \A k \in Kids : ChildMissing(k.geom)
  /\ \E k \in Kids : k.geom.isNull
  /\ \E k \in Kids : ~k.geom.isNull /\ isEmpty(k.geom)
  /\ uq = EmptyBag /\ uresult = Null /\ ~uthrown

\* a step of the while loop: two items were popped, and united or not
MergeStep == merges' # merges \/ uthrown' # uthrown

\* what the queue holds once the two items of the step are popped
Remaining == Pop(lastPop'[2], Pop(lastPop'[1], uq))

\* the two items popped have the fewest facets of all queued items
C13_SmallestTwoPopped ==
  MergeStep =>
    /\ number_of_facets(lastPop'[1].geom) <= number_of_facets(lastPop'[2].geom)
    /\ \A y \in BagToSet(Remaining) :
         number_of_facets(lastPop'[2].geom) <= number_of_facets(y.geom)

\* their union is put back, without a mark, next to the items left
C13_MergedReinserted ==
  (merges' = merges + 1) =>
    uq' = Remaining (+) SetToBag({[geom |-> Unite(lastPop'[1].geom, lastPop'[2].geom),
                                   mark |-> NoMark]})

\* a call that does not throw ends with at most one item queued
C13_UntilOneRemains == (UnionDone /\ ~uthrown) => BagCardinality(uq) <= 1

\* C13: at every merge step of applyUnion3D the two items removed are the two
\* with the fewest facets of all items queued, children and merged results
\* alike; their union is reinserted and competes by its own facet count, until
\* one item remains.
C13_SmallestFirst ==
  /\ [][C13_SmallestTwoPopped /\ C13_MergedReinserted]_vars
  /\ []C13_UntilOneRemains

\* the second merge pops a child before the merged result of the first merge,
\* which has more facets than the child
C13_Witness ==
  /\ merges = 2 /\ ~uthrown
  /\ lastPop[1] \in Kids
  /\ lastPop[2].geom \notin {k.geom : k \in Kids}
  /\ number_of_facets(lastPop[1].geom) < number_of_facets(lastPop[2].geom)

\* two items of the same facet count
SameFacets(x, y) == number_of_facets(x.geom) = number_of_facets(y.geom)

\* C14 as stated: among queued items of equal facet count the one with the
\* higher progress mark is taken first.
C14_HigherMarkStep ==
  MergeStep =>
    /\ SameFacets(lastPop'[1], lastPop'[2]) => lastPop'[1].mark >= lastPop'[2].mark
    /\ \A y \in BagToSet(Remaining) :
         SameFacets(lastPop'[2], y) => lastPop'[2].mark >= y.mark

C14_HigherMarkFirst == [][C14_HigherMarkStep]_vars

\* the code's order: among items of equal facet count the lower mark first
C14_LowerMarkStep ==
  MergeStep =>
    /\ SameFacets(lastPop'[1], lastPop'[2]) => lastPop'[1].mark <= lastPop'[2].mark
    /\ \A y \in BagToSet(Remaining) :
         SameFacets(lastPop'[2], y) => lastPop'[2].mark <= y.mark

\* C14 (amended): among queued items of equal facet count the one with the
\* lower progress mark is taken first; an item without a node, and a merged
\* result, has mark -1 and so goes before every marked item of its facet count.
C14_LowerMarkFirst == [][C14_LowerMarkStep]_vars

\* a merge popped two items of equal facet count and different marks
C14_Witness ==
  /\ lastPop # NoPop
  /\ SameFacets(lastPop[1], lastPop[2])
  /\ lastPop[1].mark < lastPop[2].mark

\* C15 as stated: in a call that completes without an exception the number of
\* ticks equals the number of merges.
C15_TicksEqualMerges == (UnionDone /\ ~uthrown) => ticks = merges

\* C15 (amended): in a call that completes without an exception the number of
\* ticks is the number of merges plus one: one tick once the queue is filled,
\* then one after every merge.
C15_TicksAreMergesPlusOne == (UnionDone /\ ~uthrown) => ticks = merges + 1

\* three queued children, two merges, three ticks
C15_Witness ==
  /\ UnionDone /\ ~uthrown /\ merges = 2 /\ ticks = 3

\* =====================================================================
\* Properties of the primitives, checked under SpecPrim
\* =====================================================================

PrimDone == ppc = "done"

\* a dimension that is finite and positive
Positive(d) == d.k = "fin" /\ d.v > 0

\* a dimension that is <= 0 or not finite
NotPositive(d) == d.k # "fin" \/ d.v <= 0

\* the directed edges of a mesh: <<face, position>> stands for the edge from
\* vertex position to the next vertex of the face, cyclically
EdgeSlots(m) ==
  UNION {{<<f, k>> : k \in 1 .. Len(m.indices[f])} : f \in 1 .. Len(m.indices)}

EdgeFrom(m, fk) == m.indices[fk[1]][fk[2]]

EdgeTo(m, fk) == m.indices[fk[1]][(fk[2] % Len(m.indices[fk[1]])) + 1]

\* how many faces traverse the edge from a to b
Traversals(m, a, b) ==
  Cardinality({fk \in EdgeSlots(m) : EdgeFrom(m, fk) = a /\ EdgeTo(m, fk) = b})

\* closed and consistently oriented: every edge of every face is traversed once
\* in its direction and once in the opposite direction, so that it is shared by
\* exactly two faces
ClosedManifold(m) ==
  \A fk \in EdgeSlots(m) :
    LET a == EdgeFrom(m, fk)
        b == EdgeTo(m, fk)
    IN a # b /\ Traversals(m, a, b) = 1 /\ Traversals(m, b, a) = 1

\* every index of every face names a vertex of the mesh
IndicesInRange(m) ==
  \A fk \in EdgeSlots(m) : EdgeFrom(m, fk) \in 0 .. Len(m.vertices) - 1

DistinctVertices(m) ==
  \A i, j \in 1 .. Len(m.vertices) : i # j => m.vertices[i] # m.vertices[j]

\* V - E + F, every edge being counted by its two traversals
Euler(m) ==
  Len(m.vertices) - (Cardinality(EdgeSlots(m)) \div 2) + Len(m.indices)

\* C8: for positive finite extents and either centering flag the cube has
\* exactly 8 distinct vertices and 6 faces of 4 vertices, and is a closed
\* manifold whose faces traverse each shared edge in opposite directions.
C8_CubeIsClosedBox ==
  (PrimDone /\ node.kind = "cube"
     /\ Positive(node.x) /\ Positive(node.y) /\ Positive(node.z))
  => /\ geom.type = "PolySet"
     /\ Len(geom.vertices) = 8 /\ DistinctVertices(geom)
     /\ Len(geom.indices) = 6
     /\ \A f \in 1 .. 6 : Len(geom.indices[f]) = 4
     /\ IndicesInRange(geom)
     /\ ClosedManifold(geom)

\* a centered box of unequal extents
C8_Witness ==
  /\ PrimDone /\ node.kind = "cube" /\ node.center
  /\ Positive(node.x) /\ Positive(node.y) /\ node.x # node.y
  /\ Len(geom.indices) = 6

\* the dimensions for which the claim asks for an empty result
C9_Degenerate ==
  CASE node.kind = "cube" ->
         NotPositive(node.x) \/ NotPositive(node.y) \/ NotPositive(node.z)
    [] node.kind = "sphere" -> NotPositive(node.r)
    [] node.kind = "cylinder" ->
         \/ NotPositive(node.h)
         \/ node.r1.k # "fin" \/ node.r1.v < 0
         \/ node.r2.k # "fin" \/ node.r2.v < 0
         \/ (node.r1 = Fin(0) /\ node.r2 = Fin(0))
    [] node.kind = "square" -> NotPositive(node.x) \/ NotPositive(node.y)
    [] node.kind = "circle" -> NotPositive(node.r)

\* an empty mesh or an empty outline set: no vertex, no face
C9_Empty ==
  CASE node.kind \in {"cube", "sphere", "cylinder"} ->
         geom.type = "PolySet" /\ Len(geom.vertices) = 0 /\ Len(geom.indices) = 0
    [] node.kind \in {"square", "circle"} ->
         geom.type = "Polygon2d" /\ Len(geom.outlines) = 0

\* C9: cube, sphere, cylinder, square and circle return an empty result, not
\* an error, whenever a dimension that must be positive is <= 0 or not finite
\* (cylinder: h <= 0, r1 < 0, r2 < 0, both radii zero, or a non-finite value),
\* and no vertex or face is emitted on the way.
C9_DegenerateIsEmpty ==
  (ppc \in {"node", "build", "done"} /\ C9_Degenerate)
  => /\ bld = NewBuilder
     /\ PrimDone => C9_Empty

\* a cylinder of positive height whose radii are both zero
C9_Witness ==
  /\ PrimDone /\ node.kind = "cylinder"
  /\ Positive(node.h) /\ node.r1 = Fin(0) /\ node.r2 = Fin(0)
  /\ geom = EmptyPolySet

\* C10: for every fragment count F >= 3 and radius r > 0 the sphere is a
\* closed 2-manifold: every edge is shared by exactly two faces that traverse
\* it in opposite directions, and V - E + F = 2.
C10_SphereIsClosedManifold ==
  (PrimDone /\ node.kind = "sphere" /\ Positive(node.r))
  => /\ geom.type = "PolySet"
     /\ Len(geom.indices) >= 2
     /\ IndicesInRange(geom) /\ DistinctVertices(geom)
     /\ ClosedManifold(geom)
     /\ Euler(geom) = 2

\* a sphere of an odd fragment count with three rings
C10_Witness ==
  /\ PrimDone /\ node.kind = "sphere" /\ Positive(node.r)
  /\ node.fn = 5 /\ Len(geom.vertices) = 15 /\ Len(geom.indices) = 22

\* a cylinder of positive height has been built
CylinderDone == PrimDone /\ node.kind = "cylinder" /\ Positive(node.h)

\* the fragment count of the node: $fn, at least 3
Fragments == IF node.fn >= 3 THEN node.fn ELSE 3

\* the indices of the vertices of a mesh that lie at height z
VerticesAt(m, z) == {i \in 0 .. Len(m.vertices) - 1 : m.vertices[i + 1][3] = z}

\* the vertex indices of face f
FaceVertices(m, f) == {m.indices[f][k] : k \in 1 .. Len(m.indices[f])}

\* r1 = r2 = r > 0: F quads, then two caps of F vertices, one at each end
C11_Prism ==
  (CylinderDone /\ Positive(node.r1) /\ node.r2 = node.r1)
  => /\ Len(geom.indices) = Fragments + 2
     /\ \A f \in 1 .. Fragments : Len(geom.indices[f]) = 4
     /\ \A f \in Fragments + 1 .. Fragments + 2 :
          /\ Len(geom.indices[f]) = Fragments
          /\ Cardinality(FaceVertices(geom, f)) = Fragments
     /\ FaceVertices(geom, Fragments + 1) = VerticesAt(geom, CylinderZ(node, FALSE))
     /\ FaceVertices(geom, Fragments + 2) = VerticesAt(geom, CylinderZ(node, TRUE))

\* r1 = r > 0, r2 = 0: F triangles that all hold the one vertex of the upper
\* end, then one cap of F vertices at the lower end
C11_Cone ==
  (CylinderDone /\ Positive(node.r1) /\ node.r2 = Fin(0))
  => /\ Len(geom.indices) = Fragments + 1
     /\ Cardinality(VerticesAt(geom, CylinderZ(node, TRUE))) = 1
     /\ \A f \in 1 .. Fragments :
          /\ Len(geom.indices[f]) = 3
          /\ Cardinality(FaceVertices(geom, f)) = 3
          /\ VerticesAt(geom, CylinderZ(node, TRUE)) \subseteq FaceVertices(geom, f)
     /\ Len(geom.indices[Fragments + 1]) = Fragments
     /\ FaceVertices(geom, Fragments + 1) = VerticesAt(geom, CylinderZ(node, FALSE))
     /\ Cardinality(VerticesAt(geom, CylinderZ(node, FALSE))) = Fragments

\* C11: for every F >= 3 and h > 0, a cylinder with r1 = r2 > 0 has exactly F
\* quad side faces and 2 caps of F vertices; one with r1 > 0 and r2 = 0 has
\* exactly F triangular side faces and 1 cap, all triangles share the single
\* apex vertex, and no triangle or cap is emitted on the zero-radius end.
C11_CylinderFaceCounts == C11_Prism /\ C11_Cone

\* a cone of five fragments: five triangles and one cap
C11_Witness ==
  /\ CylinderDone /\ Positive(node.r1) /\ node.r2 = Fin(0) /\ node.fn = 5
  /\ Len(geom.indices) = 6 /\ Len(geom.vertices) = 6

\* the four valid shapes: r1 = r2 > 0, r1 > 0 = r2, r1 = 0 < r2, r1 # r2 > 0
ValidCylinder ==
  /\ node.r1.k = "fin" /\ node.r1.v >= 0
  /\ node.r2.k = "fin" /\ node.r2.v >= 0
  /\ node.r1.v + node.r2.v > 0

\* C18: for every valid cylinder shape and every F >= 3 the mesh is closed and
\* consistently oriented (every directed edge of a face is matched by exactly
\* one reverse edge of another face), and it has at most 2F + 2 faces.
C18_CylinderIsClosed ==
  (CylinderDone /\ ValidCylinder)
  => /\ geom.type = "PolySet"
     /\ IndicesInRange(geom) /\ DistinctVertices(geom)
     /\ ClosedManifold(geom)
     /\ Len(geom.indices) <= 2 * Fragments + 2
     /\ Euler(geom) = 2

\* a truncated cone of six fragments: twelve triangles and two caps
C18_Witness ==
  /\ CylinderDone /\ Positive(node.r1) /\ Positive(node.r2) /\ node.r1 # node.r2
  /\ node.fn = 6 /\ Len(geom.indices) = 14 /\ Len(geom.vertices) = 12

\* =====================================================================
\* Properties of the polyhedron and polygon modules, checked under SpecPoly
\* =====================================================================

\* the step that ends a face or path
ListEndStep == bld.open /\ ~bld'.open

\* the face that ends listed an index beyond the points: it is not stored;
\* nor is a face left with fewer than 3 indices
C12_BadFaceDropped ==
  (ListEndStep /\ node.kind = "polyhedron" /\ (bld.warned \/ Len(bld.face) < 3))
  => node'.faces = node.faces

\* every face kept in the node has at least 3 indices, all of them in range
C12_KeptFacesValid ==
  node.kind = "polyhedron" =>
    \A f \in 1 .. Len(node.faces) :
      /\ Len(node.faces[f]) >= 3
      /\ \A k \in 1 .. Len(node.faces[f]) : node.faces[f][k] \in 0 .. node.npoints - 1

\* C12: a polyhedron face that lists a point index >= the number of points is
\* dropped as a whole, with a warning; a face left with fewer than 3 valid
\* indices is dropped too; so every face kept has at least 3 indices, all in
\* range.
C12_FaceWithBadIndexDropped == [][C12_BadFaceDropped]_vars /\ []C12_KeptFacesValid

\* a path that ends with fewer than 3 indices is not stored
C16_ShortPathNotStored ==
  (ListEndStep /\ node.kind = "polygon" /\ Len(bld.face) < 3)
  => node'.paths = node.paths

\* every path of the node and every outline emitted has at least 3 vertices
C16_OutlinesHaveThree ==
  node.kind = "polygon" =>
    /\ \A p \in 1 .. Len(node.paths) : Len(node.paths[p]) >= 3
    /\ PrimDone => \A o \in 1 .. Len(geom.outlines) : Len(geom.outlines[o]) >= 3

\* C16: an explicit path of a polygon left with fewer than 3 point indices
\* after the out-of-range indices are filtered out is dropped: it is not
\* stored in the node and no outline is emitted for it, so every emitted
\* outline has at least 3 vertices.
C16_ShortPathDropped == [][C16_ShortPathNotStored]_vars /\ []C16_OutlinesHaveThree

====
